---- MODULE Spec2Model ----
(***************************************************************************)
(* ParaKey desktop client: the audio framer (electron/audio.ts), the       *)
(* dictation session orchestrator (electron/main.ts), the hold-hotkey      *)
(* tracker (electron/hotkeys.ts) and the insertion pipeline                *)
(* (electron/clipboard.ts).                                                *)
(*                                                                         *)
(* AudioSpec drives one audio controller the way audio.test.ts does (a     *)
(* collecting onFrame callback); Spec drives the orchestrator: hotkey/IPC  *)
(* edges, timers, capture callbacks and backend stream events interleave.  *)
(* HotkeySpec feeds key events to registerHoldHotkey; ClipboardSpec and    *)
(* PasteFailureSpec run insertion cycles of the final-event handler;       *)
(* SanitizeSpec applies sanitizeText to bounded texts.                     *)
(* EdgeSpec is the orchestrator without backend events and capture;        *)
(* EventSpec is one session receiving several events; StartupSpec is       *)
(* startApp with the backend process, its PID file and the health poll.    *)
(* HistorySpec adds transcripts to and clears the history                  *)
(* (electron/history.ts); DeserializeSpec deserializes stream messages     *)
(* (electron/grpc-client.ts).                                              *)
(***************************************************************************)
EXTENDS Integers, Sequences, FiniteSets, TLC

\* ------------------------------------------------------------------ bounds
MaxPushed == 6      \* bytes captured by one controller
MaxChunk == 5       \* bytes in one capture callback
MaxStops == 2       \* stop() calls on the controller under test
MaxSessions == 2    \* activate edges that start a session
MaxEvents == 1      \* data events the backend sends in one run
MaxCaptured == 3    \* bytes captured by one controller of a session
MaxFired == 4       \* hotkey callbacks invoked in one run
MaxTicks == 3       \* clock ticks in one run of the hotkey tracker
TickMs == 20        \* milliseconds one clock tick advances
MaxInsertions == 2  \* final events inserted in one run of the insertion pipeline
MaxTextLen == 4     \* characters of a text handed to sanitizeText
MaxApplications == 2   \* successive applications of sanitizeText
MaxStreamEvents == 2   \* events the backend sends on one stream
MaxAttempts == 5    \* failed health checks before the backend answers or exits
MaxAdded == 11      \* addTranscript calls between two clearHistory calls

\* ------------------------------------------------------------------ inputs
Bytes == {0, 255}
SampleRates == {500, 1500}
FrameDurations == {1, 2}
ChannelCounts == {1, 2}
AudioOptions ==
  [sampleRateHz : SampleRates, channels : ChannelCounts, frameMs : FrameDurations]

Chunks == UNION {[1..n -> Bytes] : n \in 1..MaxChunk}

\* Texts are sequences of characters; the characters that sanitizeText treats
\* specially are named: NUL (a C0 control), LRM (a bidi mark), CR, LF, TAB,
\* ACUTE (U+0301, which NFC composes with a preceding "e" into E_ACUTE).
ErrorMessages == {<<"backend failed">>}
SessionChunks == {[i \in 1..MaxCaptured |-> 255]}
SessionOptions == [sampleRateHz : {500}, channels : {1}, frameMs : {1}]
PartialTexts == {<<>>, <<"a", "NUL", "LF">>}
FinalTexts == {<<"a", "NUL", "LF">>}
\* An optional value (undefined/null or a value) is a sequence of length 0 or 1.
None == <<>>
Some(x) == <<x>>

VARIABLES
  ctrls,       \* audio controllers created so far (createAudioStream results)
  frames,      \* frames received by the collecting callback of audio.test.ts
  pushed,      \* all bytes the device of the controller under test delivered
  settings,    \* settings.audio
  dictationActive,
  dictationStream,   \* 0 (null) or an index into streams
  audioController,   \* 0 (null) or an index into ctrls
  streams,     \* the streams opened by streamAudio, one per started session
  starts,      \* sessions whose startDictation awaits createAudioStream
  stops,       \* the stopDictation invocations, in call order
  uiState,     \* the last "dictation:state" sent to the main window
  overlay,     \* the overlay window: visible, text, mode
  hideTimers,  \* whether an auto-hide timer of showOverlay is pending
  backendLog,  \* the last "backend:log" line
  finalSent,   \* the last "dictation:final" text
  history,     \* history.ts: the transcript history
  clipboard,   \* the system clipboard text
  previousClipboardText,
  pastes,      \* sendPaste invocations in flight: "focus" or "restore"
  pasted,      \* what each simulated Ctrl+V pasted
  held,        \* the key codes physically held down
  key1Down,    \* hotkeys.ts: registerHoldHotkey's flags
  key2Down,
  active,
  fired,       \* the callbacks registerHoldHotkey has invoked, in order
  now,         \* milliseconds since the hook was started
  chordSince,  \* when both flags last became true together, if they are
  original,    \* the clipboard text before the first insertion cycle
  overlapped,  \* an insertion cycle began while another was in flight
  testText,    \* the text under test of clipboard.test.ts
  testResults, \* the results of sanitizeText applied to it, in call order
  startupPc,   \* where startApp is: "boot", "ensure", "poll", "running", "failed"
  backendReady,
  backendExited,
  backendProcess,    \* the child startBackend spawned: "none", "running", "exited"
  childPid,    \* child.pid of that child, if it has one
  pidFile,     \* the content of backend.pid, if the file exists
  backendStatus,     \* the last "backend:status" sent to the main window
  startupError,      \* the last "startup:error" sent to the main window
  attempts,    \* the failed health checks counted by startBackendProcess
  hotkeyRegistered,
  added,       \* the texts handed to addTranscript since the last clearHistory
  payload,     \* the last JSON payload received on the stream, if any
  delivered    \* the DictationEvent the deserializer made of it

audioVars == <<ctrls, frames, pushed>>
sessionVars == <<settings, dictationActive, dictationStream, audioController,
                 streams, starts, stops>>
worldVars == <<uiState, overlay, hideTimers, backendLog, finalSent, history,
               clipboard, previousClipboardText, pastes, pasted>>
hotkeyVars == <<held, key1Down, key2Down, active, fired, now, chordSince>>
startupVars == <<startupPc, backendReady, backendExited, backendProcess, childPid,
                 pidFile, backendStatus, startupError, attempts, hotkeyRegistered>>
unitVars == <<added, payload, delivered>>
harnessVars == <<hotkeyVars, original, overlapped, testText, testResults, startupVars,
                 unitVars>>
vars == <<ctrls, frames, pushed, settings, dictationActive, dictationStream,
          audioController, streams, starts, stops, uiState, overlay, hideTimers,
          backendLog, finalSent, history, clipboard, previousClipboardText,
          pastes, pasted, held, key1Down, key2Down, active, fired, now,
          chordSince, original, overlapped, testText, testResults, startupPc,
          backendReady, backendExited, backendProcess, childPid, pidFile,
          backendStatus, startupError, attempts, hotkeyRegistered, added, payload,
          delivered>>

\* ---------------------------------------------------------------- audio.ts
\* Math.round of a non-negative quotient n/d: halves round up.
MathRound(n, d) == (2 * n + d) \div (2 * d)

frameSamplesOf(options) == MathRound(options.sampleRateHz * options.frameMs, 1000)

frameBytesOf(options) == frameSamplesOf(options) * options.channels * 2

\* The closure state of one createAudioStream call. quits counts the calls of
\* input.quit(); unflushed counts the bytes that were still buffered when the
\* device handle was released.
createAudioStream(options, session) ==
  [ options    |-> options,
    frameBytes |-> frameBytesOf(options),
    sequence   |-> 0,
    onFrame    |-> "null",
    buffer     |-> <<>>,
    started    |-> FALSE,
    quits      |-> 0,
    unflushed  |-> 0,
    session    |-> session ]

MkFrame(c, audio) ==
  [ audio          |-> audio,
    sample_rate_hz |-> c.options.sampleRateHz,
    channels       |-> c.options.channels,
    sequence       |-> c.sequence,
    end_of_stream  |-> FALSE ]

\* The remainder sent as it is, without padding.
PadFrameUnpadded(buffer, frameBytes) == buffer

\* Buffer.alloc(frameBytes) with buffer copied to its start.
PadFrame(buffer, frameBytes) ==
  [i \in 1..frameBytes |-> IF i <= Len(buffer) THEN buffer[i] ELSE 0]

\* flushBuffer that forgets to clear the remainder.
flushBufferKeepsRemainder(c) ==
  IF Len(c.buffer) > 0 /\ c.onFrame # "null"
  THEN [ ctl    |-> [c EXCEPT !.sequence = @ + 1],
         frames |-> <<MkFrame(c, PadFrame(c.buffer, c.frameBytes))>> ]
  ELSE [ ctl |-> c, frames |-> <<>> ]

\* flushBuffer: the controller afterwards and the frames handed to onFrame.
flushBuffer(c) ==
  IF Len(c.buffer) > 0 /\ c.onFrame # "null"
  THEN [ ctl    |-> [c EXCEPT !.buffer = <<>>, !.sequence = @ + 1],
         frames |-> <<MkFrame(c, PadFrame(c.buffer, c.frameBytes))>> ]
  ELSE [ ctl |-> c, frames |-> <<>> ]

\* The while loop with ++sequence in place of sequence++.
RECURSIVE dataLoopPreIncrement(_, _)
dataLoopPreIncrement(c, out) ==
  IF Len(c.buffer) >= c.frameBytes
  THEN LET frame == SubSeq(c.buffer, 1, c.frameBytes)
           rest  == SubSeq(c.buffer, c.frameBytes + 1, Len(c.buffer))
           next  == [c EXCEPT !.buffer = rest, !.sequence = @ + 1]
       IN  IF c.onFrame # "null"
           THEN dataLoopPreIncrement(next, Append(out, MkFrame(next, frame)))
           ELSE dataLoopPreIncrement([c EXCEPT !.buffer = rest], out)
  ELSE [ ctl |-> c, frames |-> out ]

\* The "data" handler with an if in place of the while: one frame per callback.
dataLoopOnce(c, out) ==
  IF Len(c.buffer) >= c.frameBytes
  THEN LET frame == SubSeq(c.buffer, 1, c.frameBytes)
           rest  == SubSeq(c.buffer, c.frameBytes + 1, Len(c.buffer))
       IN  IF c.onFrame # "null"
           THEN [ ctl    |-> [c EXCEPT !.buffer = rest, !.sequence = @ + 1],
                  frames |-> Append(out, MkFrame(c, frame)) ]
           ELSE [ ctl |-> [c EXCEPT !.buffer = rest], frames |-> out ]
  ELSE [ ctl |-> c, frames |-> out ]

\* The while loop of the "data" handler.
RECURSIVE dataLoop(_, _)
dataLoop(c, out) ==
  IF Len(c.buffer) >= c.frameBytes
  THEN LET frame == SubSeq(c.buffer, 1, c.frameBytes)
           rest  == SubSeq(c.buffer, c.frameBytes + 1, Len(c.buffer))
       IN  IF c.onFrame # "null"
           THEN dataLoop([c EXCEPT !.buffer = rest, !.sequence = @ + 1],
                         Append(out, MkFrame(c, frame)))
           ELSE dataLoop([c EXCEPT !.buffer = rest], out)
  ELSE [ ctl |-> c, frames |-> out ]

\* The "data" handler dropping the remainder of the previous callback.
onDataDropsRemainder(c, chunk) == dataLoop([c EXCEPT !.buffer = chunk], <<>>)

\* The "data" handler putting the new chunk in front of the remainder.
onDataPrepends(c, chunk) == dataLoop([c EXCEPT !.buffer = chunk \o @], <<>>)

\* input.on("data", chunk).
onData(c, chunk) == dataLoop([c EXCEPT !.buffer = @ \o chunk], <<>>)

\* input.quit(): the device handle is released.
inputQuit(c) == [c EXCEPT !.quits = @ + 1, !.unflushed = @ + Len(c.buffer)]

\* stop() releasing the device before it flushes.
controllerStopQuitsFirst(c) == flushBuffer(inputQuit(c))

\* AudioStreamController.stop: flush, then input.quit().
controllerStop(c) ==
  LET f == flushBuffer(c)
  IN  [ ctl |-> inputQuit(f.ctl), frames |-> f.frames ]

\* ------------------------------------------------------ the idle application
\* Module state of main.ts, history.ts and clipboard.ts before any session.
IdleInit ==
  /\ dictationActive = FALSE
  /\ dictationStream = 0
  /\ audioController = 0
  /\ streams = <<>>
  /\ starts = {}
  /\ stops = <<>>
  /\ uiState = "IDLE"
  /\ overlay = [visible |-> FALSE, text |-> <<>>, mode |-> "listening"]
  /\ hideTimers = FALSE
  /\ backendLog = <<>>
  /\ finalSent = None
  /\ history = <<>>
  /\ previousClipboardText = None
  /\ pastes = <<>>
  /\ pasted = <<>>

\* hotkeys.ts before registerHoldHotkey has seen an event; no text under test.
HotkeyIdle ==
  /\ held = {}
  /\ key1Down = FALSE
  /\ key2Down = FALSE
  /\ active = FALSE
  /\ fired = <<>>
  /\ now = 0
  /\ chordSince = None

\* the pid of the spawned child and the pid a stale PID file holds
ChildPid == 12345
OrphanPid == 99999

\* String(pid) and parseInt(content, 10) over the pids above
String(pid) == IF pid = ChildPid THEN "12345" ELSE "99999"
parseInt(content) == IF content = "12345" THEN ChildPid ELSE OrphanPid

\* nothing added to the history by a harness, nothing received yet
UnitIdle ==
  /\ added = <<>>
  /\ payload = None
  /\ delivered = None

\* no insertion cycle and no text under test
TestIdle ==
  /\ UnitIdle
  /\ original = clipboard
  /\ overlapped = FALSE
  /\ testText = <<>>
  /\ testResults = <<>>

\* startApp has completed: the backend runs and reported ready, the hotkey is
\* registered
StartupDone ==
  /\ startupPc = "running"
  /\ backendReady = TRUE
  /\ backendExited = FALSE
  /\ backendProcess = "running"
  /\ childPid = Some(ChildPid)
  /\ pidFile = Some(String(ChildPid))
  /\ backendStatus = Some([ready |-> TRUE, detail |-> "ready"])
  /\ startupError = None
  /\ attempts = 0
  /\ hotkeyRegistered = TRUE

HarnessIdle ==
  /\ HotkeyIdle
  /\ TestIdle
  /\ StartupDone

\* ------------------------------------------------- AudioSpec (audio.test.ts)
AudioInit ==
  /\ \E o \in AudioOptions :
       /\ ctrls = <<createAudioStream(o, 0)>>
       /\ settings = o
  /\ frames = <<>>
  /\ pushed = <<>>
  /\ clipboard = <<>>
  /\ IdleInit
  /\ HarnessIdle

\* controller.onFrame((f) => frames.push(f))
TestOnFrame ==
  /\ ctrls[1].onFrame = "null"
  /\ ctrls' = [ctrls EXCEPT ![1].onFrame = "collect"]
  /\ UNCHANGED <<harnessVars, frames, pushed, sessionVars, worldVars>>

\* controller.start(), after the callback is registered
TestStart ==
  /\ ctrls[1].onFrame # "null"
  /\ ~ctrls[1].started
  /\ ctrls' = [ctrls EXCEPT ![1].started = TRUE]
  /\ UNCHANGED <<harnessVars, frames, pushed, sessionVars, worldVars>>

\* the device delivers a chunk
TestData ==
  \E chunk \in Chunks :
    /\ ctrls[1].started
    /\ ctrls[1].quits = 0
    /\ Len(pushed) + Len(chunk) <= MaxPushed
    /\ LET r == onData(ctrls[1], chunk)
       IN  /\ ctrls' = [ctrls EXCEPT ![1] = r.ctl]
           /\ frames' = frames \o r.frames
    /\ pushed' = pushed \o chunk
    /\ UNCHANGED <<harnessVars, sessionVars, worldVars>>

\* controller.stop()
TestStop ==
  /\ ctrls[1].started
  /\ ctrls[1].quits < MaxStops
  /\ LET r == controllerStop(ctrls[1])
     IN  /\ ctrls' = [ctrls EXCEPT ![1] = r.ctl]
         /\ frames' = frames \o r.frames
  /\ UNCHANGED <<harnessVars, pushed, sessionVars, worldVars>>

AudioNext == TestOnFrame \/ TestStart \/ TestData \/ TestStop

AudioSpec == AudioInit /\ [][AudioNext]_vars


\* ------------------------------------------------------------- clipboard.ts
ControlChars == {"NUL"}
BidiChars == {"LRM"}
Whitespace == {" ", "TAB", "LF", "CR"}

Strip(text, chars) == SelectSeq(text, LAMBDA ch : ch \notin chars)

\* String.prototype.normalize("NFC") on the modelled alphabet.
RECURSIVE normalizeNFC(_)
normalizeNFC(text) ==
  IF Len(text) < 2 THEN text
  ELSE IF text[1] = "e" /\ text[2] = "ACUTE"
       THEN <<"E_ACUTE">> \o normalizeNFC(SubSeq(text, 3, Len(text)))
       ELSE <<text[1]>> \o normalizeNFC(Tail(text))

\* replace(/\r\n/g, "\n")
RECURSIVE replaceCRLF(_)
replaceCRLF(text) ==
  IF Len(text) = 0 THEN text
  ELSE IF Len(text) >= 2 /\ text[1] = "CR" /\ text[2] = "LF"
       THEN <<"LF">> \o replaceCRLF(SubSeq(text, 3, Len(text)))
       ELSE <<text[1]>> \o replaceCRLF(Tail(text))

\* A replace that leaves bare carriage returns alone.
replaceCRKeeps(text) == text

\* replace(/\r/g, "\n")
replaceCR(text) == [i \in 1..Len(text) |-> IF text[i] = "CR" THEN "LF" ELSE text[i]]

\* replace(/\n/g, "\r\n")
RECURSIVE replaceLF(_)
replaceLF(text) ==
  IF Len(text) = 0 THEN text
  ELSE (IF text[1] = "LF" THEN <<"CR", "LF">> ELSE <<text[1]>>) \o replaceLF(Tail(text))

\* A trimEnd that trims nothing.
trimEndNothing(text) == text

RECURSIVE trimEnd(_)
trimEnd(text) ==
  IF Len(text) > 0 /\ text[Len(text)] \in Whitespace
  THEN trimEnd(SubSeq(text, 1, Len(text) - 1))
  ELSE text

sanitizeText(text) ==
  LET stripped   == Strip(Strip(text, ControlChars), BidiChars)
      normalized == normalizeNFC(stripped)
      lines      == replaceLF(replaceCR(replaceCRLF(normalized)))
  IN  trimEnd(lines) \o <<" ">>

\* ---------------------------------------------------------------- history.ts
MAX_HISTORY == 10

\* slice(0, n) in place of slice(-n): the oldest entries are kept
SliceFirst(seq, n) == IF Len(seq) <= n THEN seq ELSE SubSeq(seq, 1, n)

\* Array.prototype.slice(-n)
SliceLast(seq, n) == IF Len(seq) <= n THEN seq ELSE SubSeq(seq, Len(seq) - n + 1, Len(seq))

\* --------------------------------------------- main.ts: effects on the world
\* The part of the state that the handlers of main.ts change step by step.
World ==
  [ uiState    |-> uiState,
    overlay    |-> overlay,
    hideTimers |-> hideTimers,
    backendLog |-> backendLog,
    finalSent  |-> finalSent,
    history    |-> history,
    clipboard  |-> clipboard,
    previousClipboardText |-> previousClipboardText,
    pastes     |-> pastes ]

SetWorld(w) ==
  /\ uiState' = w.uiState
  /\ overlay' = w.overlay
  /\ hideTimers' = w.hideTimers
  /\ backendLog' = w.backendLog
  /\ finalSent' = w.finalSent
  /\ history' = w.history
  /\ clipboard' = w.clipboard
  /\ previousClipboardText' = w.previousClipboardText
  /\ pastes' = w.pastes

\* sendToMain("dictation:state", { state })
sendState(w, state) == [w EXCEPT !.uiState = state]

\* sendToMain("backend:log", line)
sendLog(w, line) == [w EXCEPT !.backendLog = line]

\* showOverlay that appends to the text already shown
showOverlayAccumulates(w, text, mode) ==
  [w EXCEPT !.overlay = [visible |-> TRUE, text |-> @.text \o text, mode |-> mode],
            !.hideTimers = IF mode # "listening" THEN TRUE ELSE @]

\* showOverlay with the overlay enabled and autoHideMs > 0 (the defaults). The
\* pending auto-hide timers are kept as "at least one is pending".
showOverlay(w, text, mode) ==
  [w EXCEPT !.overlay = [visible |-> TRUE, text |-> text, mode |-> mode],
            !.hideTimers = IF mode # "listening" THEN TRUE ELSE @]

hideOverlay(w) == [w EXCEPT !.overlay.visible = FALSE]

addTranscript(w, text) ==
  [w EXCEPT !.history = SliceLast(Append(@, text), MAX_HISTORY)]

clearHistory(w) == [w EXCEPT !.history = <<>>]

getLastTranscript(w) ==
  IF Len(w.history) = 0 THEN None ELSE Some(w.history[Len(w.history)])

\* setClipboardText that takes no snapshot of the clipboard.
setClipboardTextNoSnapshot(w, text) == [w EXCEPT !.clipboard = text]

setClipboardText(w, text) ==
  [w EXCEPT !.previousClipboardText = Some(w.clipboard), !.clipboard = text]

\* sendPaste that goes to the restore step without the keystroke.
sendPasteSkipsKeyTap(w) == [w EXCEPT !.pastes = Append(@, "restore")]

\* sendPaste up to its first await
sendPaste(w) == [w EXCEPT !.pastes = Append(@, "focus")]

\* sanitized.slice(0, 30)
Slice30(text) == SubSeq(text, 1, IF Len(text) < 30 THEN Len(text) ELSE 30)

\* The onEvent callback startDictation hands to streamAudio.
onEvent(w, event) ==
  LET w1 == IF event.partial # None
            THEN showOverlay(w, IF event.partial[1] = <<>> THEN <<"Listening...">>
                                ELSE event.partial[1], "listening")
            ELSE w
      sanitized == sanitizeText(event.final[1])
      w2 == IF event.final # None
            THEN showOverlay(
                   sendPaste(
                     setClipboardText(
                       [addTranscript(w1, sanitized) EXCEPT !.finalSent = Some(sanitized)],
                       sanitized)),
                   <<"Inserted: ">> \o Slice30(sanitized), "inserted")
            ELSE w1
      w3 == IF event.error # None
            THEN showOverlay(sendState(w2, "ERROR"), event.error[1], "error")
            ELSE w2
  IN  w3

\* The onError callback startDictation hands to streamAudio.
onError(w, message) == showOverlay(sendState(w, "ERROR"), message, "error")

\* The end of stopDictation, after the wait.
stopTail(w) == sendState(hideOverlay(w), "IDLE")

\* ------------------------------------------------------ grpc-client.ts
\* A DictationEvent as deserializeDictationEvent builds it.
Event(partial, final, status, error) ==
  [partial |-> partial, final |-> final, status |-> status, error |-> error]

BackendEvents ==
  {Event(Some(t), None, None, None) : t \in PartialTexts}
    \cup {Event(None, Some(t), None, None) : t \in FinalTexts}
    \cup {Event(None, None, Some("ready"), None)}
    \cup {Event(None, None, None, Some(m)) : m \in ErrorMessages}

\* The duplex stream streamAudio returns, with its "data" and "error" listeners.
\* written: the frames handed to write() before end(); events, inserted and
\* timedOut record what happened on the stream.
streamAudio ==
  [ status        |-> "open",
    written       |-> <<>>,
    writeEnded    |-> FALSE,
    wroteAfterEnd |-> FALSE,
    events        |-> 0,
    inserted      |-> 0,
    timedOut      |-> FALSE ]

\* dictationStream?.write(frame)
streamWrite(strs, sid, frame) ==
  IF sid = 0 THEN strs
  ELSE IF strs[sid].writeEnded
       THEN [strs EXCEPT ![sid].wroteAfterEnd = TRUE]
       ELSE [strs EXCEPT ![sid].written = Append(@, frame)]

RECURSIVE streamWriteAll(_, _, _)
streamWriteAll(strs, sid, fs) ==
  IF fs = <<>> THEN strs
  ELSE streamWriteAll(streamWrite(strs, sid, Head(fs)), sid, Tail(fs))

\* dictationStream?.end()
streamEnd(strs, sid) ==
  IF sid = 0 THEN strs ELSE [strs EXCEPT ![sid].writeEnded = TRUE]

\* The end-of-stream frame stopDictation writes.
EndOfStreamFrame ==
  [ audio          |-> <<>>,
    sample_rate_hz |-> settings.sampleRateHz,
    channels       |-> settings.channels,
    sequence       |-> 0,
    end_of_stream  |-> TRUE ]

\* --------------------------------------------------- main.ts: the session
\* The callback startDictation registers: (frame) => dictationStream?.write(frame)
emitFrames(c, strs, sid, fs) ==
  IF c.onFrame = "stream" THEN streamWriteAll(strs, sid, fs) ELSE strs

\* The stopDictation invocations that await "end" or "error" of stream sid.
Waiters(sid) == {i \in 1..Len(stops) : stops[i].pc = "wait" /\ stops[i].stream = sid}

RECURSIVE EventCount(_)
EventCount(strs) ==
  IF strs = <<>> THEN 0 ELSE Head(strs).events + EventCount(Tail(strs))

Init ==
  /\ IdleInit
  /\ settings \in SessionOptions
  /\ clipboard = <<"u">>
  /\ HarnessIdle
  /\ ctrls = <<>>
  /\ frames = <<>>
  /\ pushed = <<>>

\* startDictation or stopDictation returning at its guard
GuardReturn ==
  /\ UNCHANGED vars

\* startDictation without its guard on dictationActive
StartDictationUnguarded ==
  /\ Len(streams) < MaxSessions
  /\ dictationActive' = TRUE
  /\ streams' = Append(streams, streamAudio)
  /\ dictationStream' = Len(streams) + 1
  /\ starts' = starts \cup {Len(streams) + 1}
  /\ SetWorld(showOverlay(sendState(World, "RECORDING"), <<"Listening...">>, "listening"))
  /\ UNCHANGED <<harnessVars, ctrls, frames, pushed, settings, audioController, stops, pasted>>

\* startDictation up to the await of createAudioStream
StartDictation ==
  /\ ~dictationActive
  /\ Len(streams) < MaxSessions
  /\ dictationActive' = TRUE
  /\ streams' = Append(streams, streamAudio)
  /\ dictationStream' = Len(streams) + 1
  /\ starts' = starts \cup {Len(streams) + 1}
  /\ SetWorld(showOverlay(sendState(World, "RECORDING"), <<"Listening...">>, "listening"))
  /\ UNCHANGED <<harnessVars, ctrls, frames, pushed, settings, audioController, stops, pasted>>

\* createAudioStream resolves: onFrame is registered and the controller started
StartResumed ==
  \E sid \in starts :
    /\ starts' = starts \ {sid}
    /\ ctrls' = Append(ctrls, [createAudioStream(settings, sid) EXCEPT
                                 !.onFrame = "stream", !.started = TRUE])
    /\ audioController' = Len(ctrls) + 1
    /\ UNCHANGED <<harnessVars, frames, pushed, settings, dictationActive, dictationStream,
                   streams, stops, worldVars>>

\* createAudioStream rejects: the catch block of startDictation
StartFailed ==
  \E sid \in starts, message \in {<<"Audio capture failed.">>} :
    /\ starts' = starts \ {sid}
    /\ SetWorld(showOverlay(sendState(sendLog(World, message), "ERROR"), message, "error"))
    /\ UNCHANGED <<harnessVars, audioVars, settings, dictationActive, dictationStream,
                   audioController, streams, stops, pasted>>

\* stopDictation up to the grace delay
StopDictation ==
  /\ dictationActive
  /\ dictationActive' = FALSE
  /\ stops' = Append(stops, [pc |-> "grace", stream |-> 0, session |-> Len(streams)])
  /\ SetWorld(showOverlay(sendState(World, "PROCESSING"), <<"Processing...">>, "processing"))
  /\ UNCHANGED <<harnessVars, audioVars, settings, dictationStream, audioController, streams,
                 starts, pasted>>

\* stopDictation after the grace delay: stop the controller, write the
\* end-of-stream frame, half-close, and wait on the stream (if there is one)
GraceElapsed ==
  \E i \in 1..Len(stops) :
    /\ stops[i].pc = "grace"
    /\ \A j \in 1..(i - 1) : stops[j].pc # "grace"
    /\ LET stopped == IF audioController # 0
                      THEN controllerStop(ctrls[audioController])
                      ELSE [frames |-> <<>>]
           flushed == IF audioController # 0
                      THEN emitFrames(ctrls[audioController], streams,
                                      dictationStream, stopped.frames)
                      ELSE streams
           ended   == streamEnd(streamWrite(flushed, dictationStream, EndOfStreamFrame),
                                dictationStream)
       IN  /\ ctrls' = IF audioController # 0
                       THEN [ctrls EXCEPT ![audioController] = stopped.ctl]
                       ELSE ctrls
           /\ streams' = ended
    /\ IF dictationStream # 0
       THEN /\ stops' = [stops EXCEPT ![i].pc = "wait", ![i].stream = dictationStream]
            /\ UNCHANGED <<dictationStream, worldVars>>
       ELSE /\ stops' = [stops EXCEPT ![i].pc = "done"]
            /\ dictationStream' = 0
            /\ SetWorld(stopTail(World))
            /\ UNCHANGED pasted
    /\ UNCHANGED <<harnessVars, frames, pushed, settings, dictationActive, audioController, starts>>

\* the backend sends an event: the "data" listener of streamAudio
StreamDataOn(sid, event) ==
    /\ streams[sid].status = "open"
    /\ streams' = [streams EXCEPT ![sid].events = @ + 1,
                                  ![sid].inserted = IF event.final # None THEN @ + 1 ELSE @]
    /\ SetWorld(onEvent(World, event))
    /\ UNCHANGED <<harnessVars, audioVars, settings, dictationActive, dictationStream,
                   audioController, starts, stops, pasted>>

StreamData ==
  \E sid \in 1..Len(streams), event \in BackendEvents :
    /\ EventCount(streams) < MaxEvents
    /\ StreamDataOn(sid, event)

\* the stream ends: the "end" listeners of the waiting stopDictation calls
StreamEnded ==
  \E sid \in 1..Len(streams) :
    /\ streams[sid].status = "open"
    /\ streams' = [streams EXCEPT ![sid].status = "ended"]
    /\ stops' = [i \in 1..Len(stops) |->
                   IF i \in Waiters(sid) THEN [stops[i] EXCEPT !.pc = "done"] ELSE stops[i]]
    /\ IF Waiters(sid) # {}
       THEN /\ dictationStream' = 0
            /\ SetWorld(stopTail(World))
       ELSE UNCHANGED <<dictationStream, uiState, overlay, hideTimers, backendLog,
                        finalSent, history, clipboard, previousClipboardText, pastes>>
    /\ UNCHANGED <<harnessVars, audioVars, settings, dictationActive, audioController, starts, pasted>>

\* the stream fails: the "error" listener of streamAudio, then those of the
\* waiting stopDictation calls
StreamFailedOn(sid, message) ==
    /\ streams[sid].status = "open"
    /\ streams' = [streams EXCEPT ![sid].status = "errored"]
    /\ stops' = [i \in 1..Len(stops) |->
                   IF i \in Waiters(sid) THEN [stops[i] EXCEPT !.pc = "done"] ELSE stops[i]]
    /\ IF Waiters(sid) # {}
       THEN /\ dictationStream' = 0
            /\ SetWorld(stopTail(onError(World, message)))
       ELSE /\ UNCHANGED dictationStream
            /\ SetWorld(onError(World, message))
    /\ UNCHANGED <<harnessVars, audioVars, settings, dictationActive, audioController, starts, pasted>>

StreamFailed ==
  \E sid \in 1..Len(streams), message \in ErrorMessages : StreamFailedOn(sid, message)

\* the 30 s timer of a waiting stopDictation fires
WaitTimeout ==
  \E i \in 1..Len(stops) :
    /\ stops[i].pc = "wait"
    /\ \A j \in 1..(i - 1) : stops[j].pc # "wait"
    /\ stops' = [stops EXCEPT ![i].pc = "done"]
    /\ streams' = [streams EXCEPT ![stops[i].stream].timedOut = TRUE]
    /\ dictationStream' = 0
    /\ SetWorld(stopTail(sendLog(World, <<"Transcription timeout">>)))
    /\ UNCHANGED <<harnessVars, audioVars, settings, dictationActive, audioController, starts, pasted>>

\* the device of a running controller delivers a chunk
CaptureData ==
  \E c \in 1..Len(ctrls), chunk \in SessionChunks :
    /\ ctrls[c].started
    /\ ctrls[c].quits = 0
    /\ ctrls[c].sequence * ctrls[c].frameBytes + Len(ctrls[c].buffer) + Len(chunk)
         <= MaxCaptured
    /\ LET r == onData(ctrls[c], chunk)
       IN  /\ ctrls' = [ctrls EXCEPT ![c] = r.ctl]
           /\ streams' = emitFrames(ctrls[c], streams, dictationStream, r.frames)
    /\ UNCHANGED <<harnessVars, frames, pushed, settings, dictationActive, dictationStream,
                   audioController, starts, stops, worldVars>>

\* an auto-hide timer of showOverlay fires; it may or may not be the last one
OverlayAutoHide ==
  /\ hideTimers
  /\ hideTimers' \in BOOLEAN
  /\ overlay' = [overlay EXCEPT !.visible = FALSE]
  /\ UNCHANGED <<harnessVars, audioVars, sessionVars, uiState, backendLog, finalSent, history,
                 clipboard, previousClipboardText, pastes, pasted>>

\* sendPaste after the focus delay: the simulated Ctrl+V
PasteKeyTap ==
  \E i \in 1..Len(pastes) :
    /\ pastes[i] = "focus"
    /\ \A j \in 1..(i - 1) : pastes[j] # "focus"
    /\ pastes' = [pastes EXCEPT ![i] = "restore"]
    /\ pasted' = Append(pasted, clipboard)
    /\ UNCHANGED <<harnessVars, audioVars, sessionVars, uiState, overlay, hideTimers, backendLog,
                   finalSent, history, clipboard, previousClipboardText>>

\* sendPaste after the restore delay
PasteRestore ==
  /\ pastes # <<>>
  /\ Head(pastes) = "restore"
  /\ pastes' = Tail(pastes)
  /\ IF previousClipboardText # None
     THEN /\ clipboard' = previousClipboardText[1]
          /\ previousClipboardText' = None
     ELSE /\ clipboard' = <<>>
          /\ UNCHANGED previousClipboardText
  /\ UNCHANGED <<harnessVars, audioVars, sessionVars, uiState, overlay, hideTimers, backendLog,
                 finalSent, history, pasted>>

Next ==
  \/ GuardReturn
  \/ StartDictation
  \/ StartResumed
  \/ StartFailed
  \/ StopDictation
  \/ GraceElapsed
  \/ StreamData
  \/ StreamEnded
  \/ StreamFailed
  \/ WaitTimeout
  \/ CaptureData
  \/ OverlayAutoHide
  \/ PasteKeyTap
  \/ PasteRestore

Spec == Init /\ [][Next]_vars

\* ================================================================== claims
\* ------------------------------------------------------ audio.ts (AudioSpec)
\* frameBytes as the data model states it: the sample count is the integer
\* nearest to sampleRateHz * frameMs / 1000 (halves up), times channels, times
\* two bytes per sample.
ExpectedFrameBytes(o) ==
  LET x2 == 2 * o.sampleRateHz * o.frameMs
      n  == CHOOSE m \in 0..(o.sampleRateHz * o.frameMs) :
              2000 * m - 1000 <= x2 /\ x2 < 2000 * m + 1000
  IN  n * o.channels * 2

TestFrameBytes == ExpectedFrameBytes(ctrls[1].options)
CompleteFrames == Len(pushed) \div TestFrameBytes
Remainder == Len(pushed) % TestFrameBytes

\* C6: with k*frameBytes + r bytes captured in any split into chunks, the
\* capture callbacks have emitted exactly k frames, and after stop() there is
\* exactly one more frame if r > 0 and none if r = 0.
C6_FrameCount ==
  Len(frames) = CompleteFrames
                  + (IF ctrls[1].quits > 0 /\ Remainder > 0 THEN 1 ELSE 0)

\* more bytes than one chunk holds, at least one complete frame, a remainder,
\* and stop() called
C6_Witness ==
  /\ Len(pushed) > MaxChunk
  /\ CompleteFrames >= 1
  /\ Remainder > 0
  /\ ctrls[1].quits > 0
  /\ Len(frames) = CompleteFrames + 1

\* C7: the frames one controller emits, the flush frame included, carry the
\* sequence numbers 0, 1, 2, ... in emission order.
C7_SequenceNumbers ==
  \A i \in 1..Len(frames) : frames[i].sequence = i - 1

\* two frames from the callbacks and then the flush frame
C7_Witness ==
  /\ ctrls[1].quits > 0
  /\ Remainder > 0
  /\ Len(frames) >= 3
  /\ frames[Len(frames)].sequence = 2

\* C9: every frame the controller emits has a payload of exactly frameBytes
\* bytes and end_of_stream false; the terminal frame the caller writes is
\* zero-length and marked end_of_stream.
C9_FrameShape ==
  /\ \A i \in 1..Len(frames) :
       /\ Len(frames[i].audio) = TestFrameBytes
       /\ frames[i].end_of_stream = FALSE
  /\ Len(EndOfStreamFrame.audio) = 0
  /\ EndOfStreamFrame.end_of_stream = TRUE

\* a frame from a callback and a padded flush frame, with a sample count that
\* Math.round rounds up from a half
C9_Witness ==
  /\ ctrls[1].options.sampleRateHz * ctrls[1].options.frameMs = 1500
  /\ ctrls[1].quits > 0
  /\ Remainder > 0
  /\ Len(frames) >= 2

Zeros(n) == [i \in 1..n |-> 0]

\* C10: stop() with a remainder of r bytes, 0 < r < frameBytes, emits one frame:
\* those r bytes followed by frameBytes - r zero bytes; the remainder is empty
\* afterwards and a further stop() emits no frame.
C10_FlushPadding ==
  [][ ctrls'[1].quits = ctrls[1].quits + 1 =>
        /\ ctrls'[1].buffer = <<>>
        /\ IF Len(ctrls[1].buffer) > 0
           THEN /\ Len(frames') = Len(frames) + 1
                /\ frames'[Len(frames')].audio =
                     ctrls[1].buffer \o Zeros(TestFrameBytes - Len(ctrls[1].buffer))
           ELSE frames' = frames
        /\ ctrls[1].quits > 0 => frames' = frames ]_vars

\* stop() was called twice after a remainder was flushed
C10_Witness ==
  /\ ctrls[1].quits = 2
  /\ Remainder > 0
  /\ Len(frames) = CompleteFrames + 1
  /\ frames[Len(frames)].audio[1] = 255
  /\ frames[Len(frames)].audio[TestFrameBytes] = 0

\* ------------------------------------------------- orchestrator (Spec)
\* The stopDictation call of session s has run to its end.
StopCompleted(s) ==
  \E i \in 1..Len(stops) : stops[i].session = s /\ stops[i].pc = "done"

\* The sessions started whose stop sequence has not completed.
LiveSessions == {s \in 1..Len(streams) : ~StopCompleted(s)}

\* C1: at most one dictation session is live at any time: from the activate
\* edge that starts a session until its stop sequence has completed,
\* startDictation opens no other stream.
C1_AtMostOneLiveSession == Cardinality(LiveSessions) <= 1

\* A backend event is delivered on stream s in this step.
EventDelivered(s) == streams'[s].events = streams[s].events + 1

\* C2: an event that arrives on a session's stream after that session's
\* PROCESSING timeout has fired triggers no insertion: no history append, no
\* clipboard write, no paste keystroke and no dictation:final notification.
C2_NoInsertionAfterTimeout ==
  [][ \A s \in 1..Len(streams) :
        (streams[s].timedOut /\ EventDelivered(s)) =>
          /\ history' = history
          /\ clipboard' = clipboard
          /\ previousClipboardText' = previousClipboardText
          /\ pastes' = pastes
          /\ finalSent' = finalSent ]_vars

\* C3: a session whose stop sequence ended by the timeout (neither stream end
\* nor stream error arrived) has had no text inserted.
C3_TimedOutSessionInsertsNothing ==
  \A s \in 1..Len(streams) : streams[s].timedOut => streams[s].inserted = 0

\* A backend error event or a stream error is handled in this step.
ErrorHandled ==
  \/ \E sid \in 1..Len(streams), event \in BackendEvents :
       event.error # None /\ StreamDataOn(sid, event)
  \/ \E sid \in 1..Len(streams), message \in ErrorMessages :
       StreamFailedOn(sid, message)

\* C4: on a backend error event or a stream error in any session state the
\* orchestrator is back in IDLE once the error is handled: IDLE notified,
\* dictationActive false and the stream handle released.
C4_ErrorReturnsToIdle ==
  [][ ErrorHandled =>
        /\ uiState' = "IDLE"
        /\ dictationActive' = FALSE
        /\ dictationStream' = 0 ]_vars

\* C5: a final event received while the session is PROCESSING completes the
\* session: the text is inserted, the stream is closed and the session is back
\* in IDLE as a consequence of the final event itself.
C5_FinalCompletesSession ==
  [][ \A sid \in 1..Len(streams), event \in BackendEvents :
        ( /\ event.final # None
          /\ uiState = "PROCESSING"
          /\ Waiters(sid) # {}
          /\ StreamDataOn(sid, event) ) =>
          /\ history' = Append(history, sanitizeText(event.final[1]))
          /\ uiState' = "IDLE"
          /\ dictationStream' = 0
          /\ streams'[sid].status # "open" ]_vars

\* C8: within one session the frames written to the stream (audio frames, the
\* flush frame and the end-of-stream frame) have strictly increasing sequence
\* numbers in write order.
C8_WrittenSequenceIncreasing ==
  \A s \in 1..Len(streams) :
    \A i \in 1..(Len(streams[s].written) - 1) :
      streams[s].written[i].sequence < streams[s].written[i + 1].sequence

\* ------------------------------------------------ audio.ts stop (AudioSpec)
\* C11: stop() hands the padded remainder frame (if any) to the registered
\* onFrame callback before the device handle is released, so nothing is still
\* buffered at the release, and every stop() releases the device handle.
C11_FlushBeforeQuit ==
  [][ TestStop =>
        /\ ctrls'[1].quits = ctrls[1].quits + 1
        /\ ctrls'[1].unflushed = 0
        /\ Len(ctrls[1].buffer) > 0 => Len(frames') = Len(frames) + 1 ]_vars

\* stop() was called with a remainder buffered and the callback received it
C11_Witness ==
  /\ ctrls[1].quits = 1
  /\ ctrls[1].unflushed = 0
  /\ Remainder > 0
  /\ Len(frames) = CompleteFrames + 1
  /\ frames[Len(frames)].audio = PadFrame(SubSeq(pushed, Len(pushed) - Remainder + 1,
                                                 Len(pushed)), TestFrameBytes)

\* ------------------------------------------------------------- hotkeys.ts
MODIFIER_VARIANTS ==
  (29 :> {29, 3613}) @@ (42 :> {42, 3638}) @@ (56 :> {56, 3640})
    @@ (3675 :> {3675, 3676})

\* updateHotkeyConfig: the two key sets of a preset.
updateHotkeyConfig(preset) ==
  CASE preset = "ctrl+alt"   -> [key1Codes |-> MODIFIER_VARIANTS[29],
                                 key2Codes |-> MODIFIER_VARIANTS[56]]
    [] preset = "ctrl+shift" -> [key1Codes |-> MODIFIER_VARIANTS[29],
                                 key2Codes |-> MODIFIER_VARIANTS[42]]
    [] preset = "alt+shift"  -> [key1Codes |-> MODIFIER_VARIANTS[56],
                                 key2Codes |-> MODIFIER_VARIANTS[42]]
    [] preset = "win+alt"    -> [key1Codes |-> MODIFIER_VARIANTS[3675],
                                 key2Codes |-> MODIFIER_VARIANTS[56]]

\* settings.hotkey of DEFAULT_SETTINGS
hotkeyPreset == "ctrl+alt"
debounceMs == 40

key1Codes == updateHotkeyConfig(hotkeyPreset).key1Codes
key2Codes == updateHotkeyConfig(hotkeyPreset).key2Codes

\* The key codes of the events: both variants of both modifiers, and the
\* letter A (30), which is in neither set.
KeyCodes == {29, 3613, 56, 3640, 30}

\* updateState that fires whenever the chord is held, without the edge check.
updateStateEveryEvent(k1, k2, act, log) ==
  IF k1 /\ k2
  THEN [active |-> TRUE, fired |-> Append(log, "onActivate")]
  ELSE IF act
       THEN [active |-> FALSE, fired |-> Append(log, "onDeactivate")]
       ELSE [active |-> act, fired |-> log]

\* updateState with the flags k1, k2: the new active and the callbacks invoked.
updateState(k1, k2, act, log) ==
  IF (k1 /\ k2) /\ ~act
  THEN [active |-> TRUE, fired |-> Append(log, "onActivate")]
  ELSE IF ~(k1 /\ k2) /\ act
       THEN [active |-> FALSE, fired |-> Append(log, "onDeactivate")]
       ELSE [active |-> act, fired |-> log]

\* The time since which both flags have been true together, after a handler.
ChordSinceAfter(k1, k2) ==
  IF k1 /\ k2
  THEN IF key1Down /\ key2Down THEN chordSince ELSE Some(now)
  ELSE None

\* registerHoldHotkey has been called; no key is held.
HotkeyInit ==
  /\ IdleInit
  /\ settings \in SessionOptions
  /\ ctrls = <<>>
  /\ frames = <<>>
  /\ pushed = <<>>
  /\ clipboard = <<>>
  /\ HarnessIdle

\* uIOhook "keydown": a key goes down, or a held key repeats
KeyDown ==
  \E code \in KeyCodes :
    /\ Len(fired) < MaxFired
    /\ held' = held \cup {code}
    /\ LET k1 == IF code \in key1Codes THEN TRUE ELSE key1Down
           k2 == IF code \in key2Codes THEN TRUE ELSE key2Down
           u  == updateState(k1, k2, active, fired)
       IN  /\ key1Down' = k1
           /\ key2Down' = k2
           /\ active' = u.active
           /\ fired' = u.fired
           /\ chordSince' = ChordSinceAfter(k1, k2)
    /\ UNCHANGED <<unitVars, startupVars, audioVars, sessionVars, worldVars, now, original, overlapped,
                   testText, testResults>>

\* uIOhook "keyup": a held key is released
KeyUp ==
  \E code \in held :
    /\ Len(fired) < MaxFired
    /\ held' = held \ {code}
    /\ LET k1 == IF code \in key1Codes THEN FALSE ELSE key1Down
           k2 == IF code \in key2Codes THEN FALSE ELSE key2Down
           u  == updateState(k1, k2, active, fired)
       IN  /\ key1Down' = k1
           /\ key2Down' = k2
           /\ active' = u.active
           /\ fired' = u.fired
           /\ chordSince' = ChordSinceAfter(k1, k2)
    /\ UNCHANGED <<unitVars, startupVars, audioVars, sessionVars, worldVars, now, original, overlapped,
                   testText, testResults>>

\* time passes
Tick ==
  /\ now < MaxTicks * TickMs
  /\ now' = now + TickMs
  /\ UNCHANGED <<unitVars, startupVars, audioVars, sessionVars, worldVars, held, key1Down, key2Down,
                 active, fired, chordSince, original, overlapped, testText,
                 testResults>>

HotkeyNext == KeyDown \/ KeyUp \/ Tick

HotkeySpec == HotkeyInit /\ [][HotkeyNext]_vars

\* C12: for every sequence of keydown/keyup events (repeats and foreign keys
\* included) onActivate is invoked exactly when key1Down && key2Down changes
\* from false to true and onDeactivate exactly when it changes from true to
\* false, so the callbacks alternate, starting with onActivate.
C12_EdgeCallbacks ==
  /\ [](\A i \in 1..Len(fired) :
          fired[i] = IF i % 2 = 1 THEN "onActivate" ELSE "onDeactivate")
  /\ [][ fired' =
           IF ~(key1Down /\ key2Down) /\ (key1Down' /\ key2Down')
           THEN Append(fired, "onActivate")
           ELSE IF (key1Down /\ key2Down) /\ ~(key1Down' /\ key2Down')
                THEN Append(fired, "onDeactivate")
                ELSE fired ]_vars

\* key1-down, key2-down, key2-up, key1-up: each callback was invoked once
C12_Witness ==
  /\ held = {}
  /\ ~key1Down
  /\ ~key2Down
  /\ fired = <<"onActivate", "onDeactivate">>

\* C13: each down-flag is true exactly when at least one key code of its set
\* (left or right variant) is held down.
C13_FlagsFollowHeldKeys ==
  /\ key1Down = (held \cap key1Codes # {})
  /\ key2Down = (held \cap key2Codes # {})

\* C14: onActivate is invoked only after both keys have been held together
\* for at least debounceMs.
C14_DebouncedActivation ==
  [][ (Len(fired') > Len(fired) /\ fired'[Len(fired')] = "onActivate") =>
        (chordSince # None /\ now - chordSince[1] >= debounceMs) ]_vars

\* --------------------------------------- the insertion pipeline (clipboard.ts)
ClipboardContents == {<<>>, <<"p">>}
InsertTexts == {<<"a">>, <<"b">>}

\* The application is idle; the clipboard holds the user's content or nothing.
ClipboardInit ==
  /\ IdleInit
  /\ settings \in SessionOptions
  /\ ctrls = <<>>
  /\ frames = <<>>
  /\ pushed = <<>>
  /\ clipboard \in ClipboardContents
  /\ HarnessIdle

\* the stream event handler receives a final event: sanitize, addTranscript,
\* dictation:final, setClipboardText, sendPaste (not awaited), showOverlay
InsertFinal ==
  \E t \in InsertTexts :
    /\ Len(history) < MaxInsertions
    /\ SetWorld(onEvent(World, Event(None, Some(t), None, None)))
    /\ overlapped' = (overlapped \/ pastes # <<>>)
    /\ UNCHANGED <<unitVars, startupVars, audioVars, sessionVars, pasted, hotkeyVars, original, testText,
                   testResults>>

\* uIOhook.keyTap or a clipboard call throws in a sendPaste invocation: its
\* promise, which nothing awaits, rejects and the process's
\* "unhandledRejection" handler logs the message
PasteFailed ==
  \E i \in 1..Len(pastes) :
    /\ pastes' = SubSeq(pastes, 1, i - 1) \o SubSeq(pastes, i + 1, Len(pastes))
    /\ backendLog' = <<"Unhandled: ", "paste failed">>
    /\ UNCHANGED <<audioVars, sessionVars, uiState, overlay, hideTimers, finalSent,
                   history, clipboard, previousClipboardText, pasted, harnessVars>>

ClipboardNext == InsertFinal \/ PasteKeyTap \/ PasteRestore \/ OverlayAutoHide

ClipboardSpec == ClipboardInit /\ [][ClipboardNext]_vars

PasteFailureNext ==
  InsertFinal \/ PasteKeyTap \/ PasteRestore \/ OverlayAutoHide \/ PasteFailed

PasteFailureSpec == ClipboardInit /\ [][PasteFailureNext]_vars

\* C15: after insertion cycles that each ran to completion alone (no other
\* cycle in flight, no other clipboard writer) the clipboard text is what it was
\* before setClipboardText was called, and empty if there was no content.
C15_ClipboardRestored ==
  (pastes = <<>> /\ ~overlapped) => clipboard = original

\* one cycle has completed over a clipboard that held the user's content
C15_Witness ==
  /\ pastes = <<>>
  /\ ~overlapped
  /\ Len(pasted) = 1
  /\ original = <<"p">>
  /\ clipboard = <<"p">>
  /\ previousClipboardText = None

\* C16: when insertion cycles overlap, each paste keystroke happens while the
\* clipboard holds that cycle's own text, and once the cycles have completed
\* the clipboard holds the content from before the first cycle.
C16_OverlappingCycles ==
  /\ []((overlapped /\ pastes = <<>>) => clipboard = original)
  /\ [][ (overlapped' /\ Len(pasted') > Len(pasted)) =>
           pasted'[Len(pasted')] = history[Len(pasted')] ]_vars

C18_PasteFailureSurfaced ==
  [][ PasteFailed => (uiState' = "ERROR" /\ overlay'.mode # "inserted") ]_vars

\* ------------------------------------------- sanitizeText (clipboard.test.ts)
\* Ordinary characters, a combining mark, a C0 control, a bidi mark, the line
\* ending characters and a space.
Characters == {"a", "e", "ACUTE", "NUL", "LRM", "CR", "LF", " "}
Texts == UNION {[1..n -> Characters] : n \in 0..MaxTextLen}

SanitizeInit ==
  /\ IdleInit
  /\ settings \in SessionOptions
  /\ ctrls = <<>>
  /\ frames = <<>>
  /\ pushed = <<>>
  /\ clipboard = <<>>
  /\ HotkeyIdle
  /\ original = clipboard
  /\ overlapped = FALSE
  /\ testText \in Texts
  /\ testResults = <<>>
  /\ StartupDone
  /\ UnitIdle

\* sanitizeText applied to the text, and then to its own result
TestSanitize ==
  /\ Len(testResults) < MaxApplications
  /\ testResults' = Append(testResults,
                           sanitizeText(IF testResults = <<>> THEN testText
                                        ELSE testResults[Len(testResults)]))
  /\ UNCHANGED <<unitVars, startupVars, audioVars, sessionVars, worldVars, hotkeyVars, original,
                 overlapped, testText>>

SanitizeNext == TestSanitize

SanitizeSpec == SanitizeInit /\ [][SanitizeNext]_vars

\* C19: sanitizeText is idempotent: applied to its own result it returns that
\* result, for every text of ordinary characters, controls, bidi marks, CR, LF
\* and trailing whitespace, the empty text included.
C19_SanitizeIdempotent ==
  \A i \in 2..Len(testResults) : testResults[i] = testResults[1]

\* a text with a control, a bidi mark, a CRLF and trailing whitespace was
\* sanitized twice
C19_Witness ==
  /\ testText = <<"NUL", "LRM", "CR", "LF">>
  /\ Len(testResults) = 2
  /\ testResults[2] = <<" ">>

\* C20: the result of sanitizeText holds no stripped control character and no
\* bidi character, every CR in it is followed by LF and every LF preceded by
\* CR, and it ends with one space that no other whitespace precedes.
C20_SanitizedShape ==
  testResults # <<>> =>
    LET out == testResults[1]
    IN  /\ \A i \in 1..Len(out) :
             /\ out[i] \notin ControlChars \cup BidiChars
             /\ out[i] = "CR" => (i < Len(out) /\ out[i + 1] = "LF")
             /\ out[i] = "LF" => (i > 1 /\ out[i - 1] = "CR")
        /\ Len(out) >= 1
        /\ out[Len(out)] = " "
        /\ Len(out) >= 2 => out[Len(out) - 1] \notin Whitespace

\* a bare CR inside the text became CRLF, the control was stripped and the
\* space appended
C20_Witness ==
  /\ testText = <<"a", "CR", "NUL", "a">>
  /\ testResults # <<>>
  /\ testResults[1] = <<"a", "CR", "LF", "a", " ">>

\* ------------------------------------------- the session without its events
\* The orchestrator driven by edges, timers and the end of the stream only.
EdgeNext ==
  \/ GuardReturn
  \/ StartDictation
  \/ StartResumed
  \/ StartFailed
  \/ StopDictation
  \/ GraceElapsed
  \/ StreamEnded
  \/ WaitTimeout

EdgeSpec == Init /\ [][EdgeNext]_vars

\* An invocation of startDictation gets past its guard: a stream is opened, a
\* controller creation is pending, or RECORDING is notified.
SessionBegins ==
  \/ Len(streams') > Len(streams)
  \/ starts' \ starts # {}
  \/ Len(ctrls') > Len(ctrls) /\ starts' = starts
  \/ uiState' = "RECORDING" /\ uiState # "RECORDING"
  \/ dictationStream' # dictationStream /\ dictationStream' # 0

\* An invocation of stopDictation gets past its guard: a stop sequence is
\* entered or PROCESSING is notified.
StopBegins ==
  \/ Len(stops') > Len(stops)
  \/ uiState' = "PROCESSING" /\ uiState # "PROCESSING"

\* C21: startDictation while dictationActive is true and stopDictation while
\* dictationActive is false are no-ops: no step taken while dictationActive is
\* true opens a stream, begins a controller creation or notifies RECORDING,
\* and no step taken while it is false enters a stop sequence or notifies
\* PROCESSING; the guarded invocation itself leaves every variable unchanged.
C21_GuardedEdgesAreNoOps ==
  [][/\ dictationActive => ~SessionBegins
     /\ ~dictationActive => ~StopBegins
     /\ GuardReturn => UNCHANGED vars]_vars

\* a second session is recording after a complete first one: both guards have
\* been in force
C21_Witness ==
  /\ dictationActive
  /\ uiState = "RECORDING"
  /\ Len(streams) = 2
  /\ Len(stops) = 1
  /\ stops[1].pc = "done"

\* C22: when createAudioStream fails during startDictation the session returns
\* to IDLE: after the catch block dictationActive is false and the stream
\* handle is released, so that the next activate edge starts a new session.
C22_StartFailureReturnsToIdle ==
  [][StartFailed => (~dictationActive' /\ dictationStream' = 0)]_vars

\* ------------------------------------------ one session and its event stream
\* The backend sends several events on one stream of a recording session.
StreamEvent ==
  \E sid \in 1..Len(streams), event \in BackendEvents :
    /\ streams[sid].events < MaxStreamEvents
    /\ StreamDataOn(sid, event)

EventNext ==
  \/ StartDictation
  \/ StartResumed
  \/ StreamEvent
  \/ OverlayAutoHide
  \/ PasteKeyTap
  \/ PasteRestore

EventSpec == Init /\ [][EventNext]_vars

\* C23: a final event is terminal for its session: on one stream at most one
\* final event leads to an insertion (history append, clipboard write, paste).
C23_FinalIsTerminal ==
  \A s \in 1..Len(streams) :
    /\ streams[s].inserted <= 1
    /\ Len(history) <= 1
    /\ Len(pastes) <= 1

\* the events that carry a partial transcript and nothing else
PartialEvents == {Event(Some(t), None, None, None) : t \in PartialTexts}

writePidFile(file, pid) == Some(String(pid))

\* removePidFile that leaves the file in place
removePidFileKeeps(file) == file

removePidFile(file) == None

\* child.pid of the process spawn returns: absent when the spawn failed
SpawnedPids == {None, Some(ChildPid)}

\* backend.pid at launch: absent, or left by an earlier run that did not exit
\* gracefully
StalePidFiles == {None, Some(String(OrphanPid))}

\* health.ready of a GetHealth response
HealthReplies == BOOLEAN

\* The module state of main.ts when app.whenReady() resolves.
StartupBoot ==
  /\ startupPc = "boot"
  /\ backendReady = FALSE
  /\ backendExited = FALSE
  /\ backendProcess = "none"
  /\ childPid = None
  /\ pidFile \in StalePidFiles
  /\ backendStatus = None
  /\ startupError = None
  /\ attempts = 0
  /\ hotkeyRegistered = FALSE

StartupInit ==
  /\ IdleInit
  /\ settings \in SessionOptions
  /\ ctrls = <<>>
  /\ frames = <<>>
  /\ pushed = <<>>
  /\ clipboard = <<"u">>
  /\ HotkeyIdle
  /\ TestIdle
  /\ StartupBoot

\* startApp up to the call of startBackendProcess: windows, wireIpc, the
\* first status and log line
StartApp ==
  /\ startupPc = "boot"
  /\ startupPc' = "ensure"
  /\ backendStatus' = Some([ready |-> FALSE, detail |-> "Initializing..."])
  /\ backendLog' = <<"Initializing backend...">>
  /\ UNCHANGED <<unitVars, hotkeyVars, original, overlapped, testText, testResults, audioVars,
                 sessionVars, uiState, overlay, hideTimers, finalSent, history, clipboard,
                 previousClipboardText, pastes, pasted, backendReady, backendExited,
                 backendProcess, childPid, pidFile, startupError, attempts,
                 hotkeyRegistered>>

\* ensureBackend finds no Python: startup:error is sent, the error is rethrown
\* and reaches the unhandledRejection handler
EnsureBackendFailed ==
  /\ startupPc = "ensure"
  /\ startupPc' = "failed"
  /\ startupError' = Some("Python 3.11+ not found. Install Python and restart ParaKey.")
  /\ backendLog' = <<"Unhandled: ">>
  /\ UNCHANGED <<unitVars, hotkeyVars, original, overlapped, testText, testResults, audioVars,
                 sessionVars, uiState, overlay, hideTimers, finalSent, history, clipboard,
                 previousClipboardText, pastes, pasted, backendReady, backendExited,
                 backendProcess, childPid, pidFile, backendStatus, attempts,
                 hotkeyRegistered>>

\* ensureBackend returns; startBackend spawns the child, writes the PID file
\* when the child has a pid and registers its exit listener; startBackendProcess
\* registers its own and enters the health-poll loop
StartBackend ==
  \E pid \in SpawnedPids :
    /\ startupPc = "ensure"
    /\ startupPc' = "poll"
    /\ backendProcess' = "running"
    /\ childPid' = pid
    /\ pidFile' = IF pid # None THEN writePidFile(pidFile, pid[1]) ELSE pidFile
    /\ backendLog' = <<"Using Python: ">>
    /\ UNCHANGED <<unitVars, hotkeyVars, original, overlapped, testText, testResults, audioVars,
                   sessionVars, uiState, overlay, hideTimers, finalSent, history, clipboard,
                   previousClipboardText, pastes, pasted, backendReady, backendExited,
                   backendStatus, startupError, attempts, hotkeyRegistered>>

\* the child exits: the exit listeners of startBackend and startBackendProcess
BackendExit ==
  /\ backendProcess = "running"
  /\ backendProcess' = "exited"
  /\ pidFile' = removePidFile(pidFile)
  /\ backendExited' = TRUE
  /\ backendLog' = <<"Backend exited with code ">>
  /\ backendStatus' = Some([ready |-> FALSE, detail |-> "Backend exited with code "])
  /\ UNCHANGED <<unitVars, hotkeyVars, original, overlapped, testText, testResults, audioVars,
                 sessionVars, uiState, overlay, hideTimers, finalSent, history, clipboard,
                 previousClipboardText, pastes, pasted, startupPc, backendReady, childPid,
                 startupError, attempts, hotkeyRegistered>>

\* GetHealth answers: one pass of the try block of the health-poll loop; when
\* ready the loop ends, startBackendProcess returns and startApp registers the
\* hotkey
HealthResponse ==
  \E ready \in HealthReplies :
    /\ startupPc = "poll"
    /\ backendProcess = "running"
    /\ backendStatus' = Some([ready |-> ready, detail |-> IF ready THEN "ready" ELSE "loading"])
    /\ backendReady' = ready
    /\ startupPc' = IF ready THEN "running" ELSE "poll"
    /\ hotkeyRegistered' = ready
    /\ UNCHANGED <<unitVars, hotkeyVars, original, overlapped, testText, testResults, audioVars,
                   sessionVars, worldVars, backendExited, backendProcess, childPid, pidFile,
                   startupError, attempts>>

\* GetHealth fails: one pass of the catch block of the health-poll loop; after
\* the exit of the child the error is rethrown and reaches the
\* unhandledRejection handler
HealthFailed ==
  /\ startupPc = "poll"
  /\ IF backendExited
     THEN /\ startupPc' = "failed"
          /\ backendLog' = <<"Unhandled: ">>
          /\ UNCHANGED <<attempts, backendStatus>>
     ELSE /\ attempts < MaxAttempts
          /\ attempts' = attempts + 1
          /\ backendStatus' = Some([ready |-> FALSE, detail |-> "Waiting for backend..."])
          /\ backendLog' = IF attempts' = 1 THEN <<"Health check failed: ">>
                           ELSE IF attempts' % 5 = 0 THEN <<"Waiting for backend... (n)">>
                           ELSE backendLog
          /\ UNCHANGED startupPc
  /\ UNCHANGED <<unitVars, hotkeyVars, original, overlapped, testText, testResults, audioVars,
                 sessionVars, uiState, overlay, hideTimers, finalSent, history, clipboard,
                 previousClipboardText, pastes, pasted, backendReady, backendExited,
                 backendProcess, childPid, pidFile, startupError, hotkeyRegistered>>

\* the renderer invokes "dictation:start": the handler wireIpc registered
IpcDictationStart ==
  /\ startupPc # "boot"
  /\ StartDictation

\* the hotkey chord is held: onActivate of the hotkey startApp registered
HotkeyActivate ==
  /\ hotkeyRegistered
  /\ StartDictation

StartupNext ==
  \/ StartApp
  \/ EnsureBackendFailed
  \/ StartBackend
  \/ BackendExit
  \/ HealthResponse
  \/ HealthFailed
  \/ HotkeyActivate
  \/ IpcDictationStart

StartupSpec == StartupInit /\ [][StartupNext]_vars

\* C24: no dictation session starts before the backend is ready: no stream is
\* opened, by the hotkey or by the dictation:start request, before a GetHealth
\* response with ready = true has been received.
C24_NoSessionBeforeReady ==
  streams # <<>> => backendReady

\* C25: when the backend process exits before it has reported ready, the
\* health-poll loop stops, the hotkey is not registered and the failure of
\* startBackendProcess is surfaced to the UI as a startup error.
C25_ExitSurfacedAsStartupError ==
  (startupPc = "failed" /\ backendExited) =>
    /\ ~hotkeyRegistered
    /\ startupError # None

\* C26: while the spawned child has a pid and has not exited, the PID file
\* exists and contains that pid; once the child has exited the PID file does
\* not exist.
C26_PidFileTracksChild ==
  /\ (backendProcess = "running" /\ childPid # None) =>
       (pidFile # None /\ parseInt(pidFile[1]) = childPid[1])
  /\ backendProcess = "exited" => pidFile = None

\* the child had a pid, ran over a stale PID file and has exited
C26_Witness ==
  /\ backendProcess = "exited"
  /\ childPid = Some(ChildPid)
  /\ backendReady

\* ------------------------------------------------------- the stop sequence
\* the end-of-stream frames among the frames written to a stream
EndOfStreamFrames(str) == {k \in 1..Len(str.written) : str.written[k].end_of_stream}

\* C27: the stop sequence of a recording session, once its grace delay has
\* elapsed, has written exactly one zero-length end-of-stream frame to the
\* stream of that session, as the last frame, and has half-closed its write
\* side, while the stream still receives events.
C27_StopSequence ==
  [][\A i \in 1..Len(stops) :
       (stops[i].pc = "grace" /\ stops'[i].pc # "grace") =>
         LET str == streams'[stops[i].session]
         IN  /\ str.writeEnded
             /\ Cardinality(EndOfStreamFrames(str)) = 1
             /\ str.written[Len(str.written)].end_of_stream
             /\ str.written[Len(str.written)].audio = <<>>
             /\ str.status = streams[stops[i].session].status]_vars

\* C28: a partial or error event delivered on the stream of a session whose
\* stop sequence has completed, while the orchestrator is idle, changes neither
\* the overlay nor the notified dictation state.
C28_LateEventsIgnored ==
  [][\A sid \in 1..Len(streams), event \in BackendEvents :
       ( /\ event.final = None
         /\ event.partial # None \/ event.error # None
         /\ StopCompleted(sid)
         /\ ~dictationActive
         /\ uiState = "IDLE"
         /\ StreamDataOn(sid, event) ) =>
           /\ overlay' = overlay
           /\ uiState' = uiState]_vars

\* C29: when a stop sequence completes, dictationActive is false and both the
\* stream handle and the audio controller handle are null.
C29_HandlesNulledAtEnd ==
  [][\A i \in 1..Len(stops) :
       (stops[i].pc # "done" /\ stops'[i].pc = "done") =>
         /\ ~dictationActive'
         /\ dictationStream' = 0
         /\ audioController' = 0]_vars

\* ------------------------------------------------- the framer, continued
\* C32: after every capture callback the retained remainder is strictly
\* shorter than frameBytes, whatever the sizes of the chunks were.
C32_RemainderBelowFrame ==
  \A c \in 1..Len(ctrls) : Len(ctrls[c].buffer) < ctrls[c].frameBytes

\* chunks spanning more than two frames have been consumed and a remainder
\* is retained
C32_Witness ==
  /\ Len(frames) >= 2
  /\ Len(pushed) > 2 * ctrls[1].frameBytes
  /\ ctrls[1].buffer # <<>>
  /\ ctrls[1].quits = 0

\* the payloads of a sequence of frames, concatenated in order
RECURSIVE Payload(_)
Payload(fs) == IF fs = <<>> THEN <<>> ELSE Head(fs).audio \o Payload(Tail(fs))

\* C38: with the onFrame callback registered before the first chunk, the
\* payloads of the emitted frames, concatenated in emission order, are the
\* captured bytes in capture order without the retained remainder; after
\* stop() they are all captured bytes followed by fewer than frameBytes zero
\* bytes.
C38_NoByteLost ==
  /\ ctrls[1].quits = 0 => Payload(frames) \o ctrls[1].buffer = pushed
  /\ ctrls[1].quits > 0 =>
       \E k \in 0..(TestFrameBytes - 1) : Payload(frames) = pushed \o Zeros(k)

\* several chunks captured, the last bytes flushed with padding by stop()
C38_Witness ==
  /\ ctrls[1].quits > 0
  /\ Len(pushed) > MaxChunk
  /\ Remainder > 0
  /\ Len(Payload(frames)) > Len(pushed)
  /\ \E i \in 1..Len(pushed) : pushed[i] = 255
  /\ \E i \in 1..Len(pushed) : pushed[i] = 0

\* ------------------------------------------- the session and its controller
\* no session is in progress: no start is pending and every stop sequence
\* that was entered has run to its end
NoSessionInProgress ==
  /\ ~dictationActive
  /\ starts = {}
  /\ \A i \in 1..Len(stops) : stops[i].pc = "done"

\* C33: every audio controller startDictation starts is stopped by the stop
\* sequence of its session: once the session has ended and IDLE is notified no
\* started controller is still capturing.
C33_NoControllerLeftCapturing ==
  NoSessionInProgress =>
    \A c \in 1..Len(ctrls) : ctrls[c].started => ctrls[c].quits > 0

\* C34: no frame is written to a stream after its end-of-stream frame has been
\* written and end() has been called on it, and a stream whose session's stop
\* sequence has completed has received exactly one end-of-stream frame.
C34_NothingWrittenAfterEnd ==
  \A s \in 1..Len(streams) :
    /\ ~streams[s].wroteAfterEnd
    /\ StopCompleted(s) => Cardinality(EndOfStreamFrames(streams[s])) = 1

\* C35: stop() is invoked at most once on each audio controller.
C35_StoppedAtMostOnce ==
  \A c \in 1..Len(ctrls) : ctrls[c].quits <= 1

\* C36: text is inserted only for a final event received while the session is
\* PROCESSING: a final event delivered in any other notified state appends
\* nothing to the history, writes nothing to the clipboard and starts no paste.
C36_InsertionOnlyWhileProcessing ==
  [][\A sid \in 1..Len(streams), event \in BackendEvents :
       ( /\ event.final # None
         /\ uiState # "PROCESSING"
         /\ StreamDataOn(sid, event) ) =>
           /\ history' = history
           /\ clipboard' = clipboard
           /\ pastes' = pastes]_vars

\* C37: the dictation:state notifications follow the session state machine:
\* RECORDING is sent only after IDLE, PROCESSING only after RECORDING or ERROR,
\* IDLE only after PROCESSING or ERROR, and whenever no session is in progress
\* the most recent notification is IDLE.
C37_NotificationsFollowStateMachine ==
  /\ [](NoSessionInProgress => uiState = "IDLE")
  /\ [][/\ (uiState' = "RECORDING" /\ uiState # "RECORDING") => uiState = "IDLE"
        /\ (uiState' = "PROCESSING" /\ uiState # "PROCESSING") =>
             uiState \in {"RECORDING", "ERROR"}
        /\ (uiState' = "IDLE" /\ uiState # "IDLE") =>
             uiState \in {"PROCESSING", "ERROR"}]_vars

\* -------------------------------------------------------------- history.ts
\* the transcripts handed to addTranscript
TranscriptTexts == {<<"x">>, <<"y">>}

HistoryInit ==
  /\ IdleInit
  /\ settings \in SessionOptions
  /\ ctrls = <<>>
  /\ frames = <<>>
  /\ pushed = <<>>
  /\ clipboard = <<>>
  /\ HarnessIdle

\* addTranscript(text)
TestAddTranscript ==
  \E text \in TranscriptTexts :
    /\ Len(added) < MaxAdded
    /\ SetWorld(addTranscript(World, text))
    /\ added' = Append(added, text)
    /\ UNCHANGED <<hotkeyVars, original, overlapped, testText, testResults, startupVars,
                   payload, delivered, audioVars, sessionVars, pasted>>

\* clearHistory()
TestClearHistory ==
  /\ SetWorld(clearHistory(World))
  /\ added' = <<>>
  /\ UNCHANGED <<hotkeyVars, original, overlapped, testText, testResults, startupVars,
                 payload, delivered, audioVars, sessionVars, pasted>>

HistoryNext == TestAddTranscript \/ TestClearHistory

HistorySpec == HistoryInit /\ [][HistoryNext]_vars

\* C39: after any sequence of addTranscript and clearHistory calls the history
\* holds at most 10 entries, the most recent additions since the last clear in
\* insertion order, and getLastTranscript returns the most recently added
\* entry, or null when the history is empty.
C39_HistoryKeepsLastTen ==
  /\ Len(history) <= 10
  /\ Len(history) = (IF Len(added) < 10 THEN Len(added) ELSE 10)
  /\ \A i \in 1..Len(history) : history[i] = added[Len(added) - Len(history) + i]
  /\ getLastTranscript(World) =
       (IF added = <<>> THEN None ELSE Some(added[Len(added)]))

\* an eleventh addition has evicted the oldest entry, which differed from the
\* entry that is now the oldest
C39_Witness ==
  /\ Len(added) = 11
  /\ Len(history) = 10
  /\ added[1] # added[2]
  /\ history[1] = added[2]
  /\ history[10] = added[11]

\* ------------------------------------------ grpc-client.ts: the deserializer
\* A value of a key of the decoded JSON payload: the key is absent, or holds
\* null, a string, or an object whose text-like field is absent or present.
JsonValues ==
  {[kind |-> k, text |-> None] : k \in {"undefined", "null", "string"}}
    \cup {[kind |-> "object", text |-> t] : t \in {None, Some(<<"t">>)}}

\* The payloads decodeJson returns: any JSON object (an empty buffer gives {}).
Payloads ==
  [partial : JsonValues, final : JsonValues, status : JsonValues, error : JsonValues]

\* typeof v
typeOf(v) ==
  IF v.kind \in {"object", "null"} THEN "object" ELSE v.kind

\* the truthiness of v
truthy(v) == v.kind \in {"object", "string"}

\* String(v.field ?? "")
fieldString(v) == IF v.text = None THEN <<>> ELSE v.text[1]

\* typeof v === "object" && v ? { text: String(v.text ?? "") } : undefined
variantOf(v) ==
  IF typeOf(v) = "object" /\ truthy(v) THEN Some(fieldString(v)) ELSE None

deserializeDictationEvent(p) ==
  Event(variantOf(p.partial), variantOf(p.final), variantOf(p.status), variantOf(p.error))

DeserializeInit ==
  /\ IdleInit
  /\ settings \in SessionOptions
  /\ ctrls = <<>>
  /\ frames = <<>>
  /\ pushed = <<>>
  /\ clipboard = <<>>
  /\ HarnessIdle

\* a message arrives on the stream: responseDeserialize, then the "data"
\* listener hands the event to the callback
ReceiveData ==
  \E p \in Payloads :
    /\ payload' = Some(p)
    /\ delivered' = Some(deserializeDictationEvent(p))
    /\ UNCHANGED <<hotkeyVars, original, overlapped, testText, testResults, startupVars,
                   added, audioVars, sessionVars, worldVars>>

DeserializeNext == ReceiveData

DeserializeSpec == DeserializeInit /\ [][DeserializeNext]_vars

\* the variants an event has populated
Populated(event) ==
  {k \in {"partial", "final", "status", "error"} : event[k] # None}

\* C31: every DictationEvent delivered to the event callback has exactly one of
\* partial, final, status and error populated and the other three undefined.
C31_ExactlyOneVariant ==
  delivered # None => Cardinality(Populated(delivered[1])) = 1

====
